---- MODULE Spec2Model ----
(***************************************************************************)
(* Model of the generalized dice game of src/game.js: the argument parser  *)
(* (DiceParser, Dice), the commitment generator (FairRandom) and the       *)
(* asynchronous coordinator (Game.play, userTurn, computerTurn,            *)
(* playRounds).  One action is one run-to-completion step of the event     *)
(* loop: main() up to the first await, and then one readline answer        *)
(* callback each, up to the next await or to the end of the game.          *)
(*                                                                         *)
(* Strings are sequences of one-character strings, so that trim, split,    *)
(* parseInt, Number and toString are computed as the engine computes them. *)
(* A JavaScript number is a record [isNaN, val]; an array read that may    *)
(* miss is a record [undef, val].                                          *)
(***************************************************************************)
EXTENDS Integers, Sequences, FiniteSets, TLC

VARIABLES
    args,            \* process.argv.slice(2)
    dice,            \* Game.dice: the parsed dice, <<>> before/without parse
    pc,              \* where the program is suspended
    log,             \* everything written to the console / read from it
    keysGenerated,   \* number of calls of FairRandom.generateKey so far
    commitments,     \* one record per call of FairRandom.generateValue
    playKey,         \* play: key
    computerChoice,  \* play: computerChoice
    firstMover,      \* which branch of play line 120 was taken
    computerDie,     \* computerTurn: computerDie (index into dice)
    playUserNumber,  \* play: userNumber
    userDie,         \* userTurn: userDie (index into dice)
    roundsKey,       \* playRounds: key
    userRoll,        \* playRounds: userRoll
    userNumber,      \* playRounds: userNumber
    userThrow,       \* playRounds: userDie.roll(userNumber), line 158
    compDie,         \* playRounds: compDie (index into dice)
    compRoll,        \* playRounds: compRoll
    exitedAt         \* the prompt at which "X" was entered, or "none"

vars == <<args, dice, pc, log, keysGenerated, commitments, playKey,
          computerChoice, playUserNumber, firstMover, computerDie, userDie,
          roundsKey,
          userRoll, userNumber, userThrow, compDie, compRoll, exitedAt>>

----------------------------------------------------------------------------
(* Bounds of the model *)

\* numeric answers typed by the human are "0" .. MaxInput
MaxInput == 6
\* crypto.randomBytes(32) is scaled to RandBits bits
RandBits == 6
\* the 53-bit significand of a double is scaled to MantBits bits
MantBits == 3

----------------------------------------------------------------------------
(* JavaScript values *)

NaN == [isNaN |-> TRUE, val |-> 0]
Num(n) == [isNaN |-> FALSE, val |-> n]
\* a === b on numbers
StrictEq(a, b) == ~a.isNaN /\ ~b.isNaN /\ a.val = b.val

Undefined == [undef |-> TRUE, val |-> 0]
Defined(v) == [undef |-> FALSE, val |-> v]

NoDie == -1
NoKey == 0
NoMac == [key |-> NoKey, msg |-> <<>>]
NoValue == [number |-> -1, hmac |-> NoMac]

DigitChars == <<"0", "1", "2", "3", "4", "5", "6", "7", "8", "9">>
IsDigit(c) == \E i \in 1..10 : DigitChars[i] = c
DigitVal(c) == (CHOOSE i \in 1..10 : DigitChars[i] = c) - 1

RECURSIVE Pow2(_)
Pow2(n) == IF n = 0 THEN 1 ELSE 2 * Pow2(n - 1)

\* String.prototype.trim
RECURSIVE TrimLeft(_)
TrimLeft(s) ==
    IF s # <<>> /\ Head(s) = " " THEN TrimLeft(Tail(s)) ELSE s
RECURSIVE TrimRight(_)
TrimRight(s) ==
    IF s # <<>> /\ s[Len(s)] = " " THEN TrimRight(SubSeq(s, 1, Len(s) - 1))
    ELSE s
Trim(s) == TrimRight(TrimLeft(s))

\* the value of the longest prefix of decimal digits of s, given acc so far
RECURSIVE DigitsPrefixValue(_, _)
DigitsPrefixValue(s, acc) ==
    IF s # <<>> /\ IsDigit(Head(s))
    THEN DigitsPrefixValue(Tail(s), 10 * acc + DigitVal(Head(s)))
    ELSE acc

\* parseInt(s): leading white space, an optional sign, then the longest
\* prefix of digits; NaN when there is no digit.  (Radix 10; the alphabet of
\* the model has no "0x" prefix.)
ParseInt(s) ==
    LET t == TrimLeft(s)
        neg == t # <<>> /\ Head(t) = "-"
        u == IF t # <<>> /\ Head(t) \in {"-", "+"} THEN Tail(t) ELSE t
    IN  IF u = <<>> \/ ~IsDigit(Head(u)) THEN NaN
        ELSE Num((IF neg THEN -1 ELSE 1) * DigitsPrefixValue(u, 0))

\* Number.prototype.toString for an integer
RECURSIVE NatToString(_)
NatToString(n) ==
    IF n < 10 THEN <<DigitChars[n + 1]>>
    ELSE NatToString(n \div 10) \o <<DigitChars[(n % 10) + 1]>>
IntToString(n) ==
    IF n < 0 THEN <<"-">> \o NatToString(-n) ELSE NatToString(n)

AllDigits(s) == \A i \in 1..Len(s) : IsDigit(s[i])

\* String.prototype.split(",")
RECURSIVE SplitFrom(_, _)
SplitFrom(s, field) ==
    IF s = <<>> THEN <<field>>
    ELSE IF Head(s) = "," THEN <<field>> \o SplitFrom(Tail(s), <<>>)
    ELSE SplitFrom(Tail(s), Append(field, Head(s)))
Split(s) == SplitFrom(s, <<>>)

\* Number(s) for a string, followed by what Number.isInteger says of it:
\* white space is trimmed, the empty string is 0, a decimal literal has an
\* optional sign and an optional fraction, anything else is NaN.  (The
\* alphabet of the model has no exponent, no "0x" and no "Infinity".)
StringToNumber(s) ==
    LET t == Trim(s)
        neg == t # <<>> /\ Head(t) = "-"
        u == IF t # <<>> /\ Head(t) \in {"-", "+"} THEN Tail(t) ELSE t
        dots == {i \in 1..Len(u) : u[i] = "."}
        p == CHOOSE i \in dots : TRUE
        ip == IF dots = {} THEN u ELSE SubSeq(u, 1, p - 1)
        fp == IF dots = {} THEN <<>> ELSE SubSeq(u, p + 1, Len(u))
        wellFormed == /\ Cardinality(dots) <= 1
                      /\ AllDigits(ip) /\ AllDigits(fp)
                      /\ (ip # <<>> \/ fp # <<>>)
        sign == IF neg THEN -1 ELSE 1
    IN  IF t = <<>> THEN [isNaN |-> FALSE, isInteger |-> TRUE, val |-> 0]
        ELSE IF ~wellFormed
             THEN [isNaN |-> TRUE, isInteger |-> FALSE, val |-> 0]
        ELSE [isNaN |-> FALSE,
              isInteger |-> \A i \in 1..Len(fp) : fp[i] = "0",
              val |-> sign * DigitsPrefixValue(ip, 0)]

----------------------------------------------------------------------------
(* Dice and DiceParser *)

\* Dice.constructor: does not throw
DiceValid(values) ==
    Len(values) = 6 /\ \A i \in 1..Len(values) : values[i].isInteger

\* Dice.roll(index): this.values[index], undefined off the array
DiceRoll(values, index) ==
    IF ~index.isNaN /\ index.val \in 0..(Len(values) - 1)
    THEN Defined(values[index.val + 1])
    ELSE Undefined

\* DiceParser.parse(args): the dice, or the message of the error thrown
DiceParserParse(a) ==
    LET numbers == [i \in 1..Len(a) |->
                      LET fields == Split(a[i])
                      IN  [j \in 1..Len(fields) |-> StringToNumber(fields[j])]]
    IN  IF Len(a) < 3
        THEN [ok |-> FALSE, error |-> "At least 3 dice are required", dice |-> <<>>]
        ELSE IF \E i \in 1..Len(a) : ~DiceValid(numbers[i])
        THEN [ok |-> FALSE, error |-> "Each die must have exactly 6 integers",
              dice |-> <<>>]
        ELSE [ok |-> TRUE, error |-> "",
              dice |-> [i \in 1..Len(a) |->
                          [j \in 1..6 |-> numbers[i][j].val]]]

----------------------------------------------------------------------------
(* FairRandom *)

\* number of binary digits of n
RECURSIVE BitLength(_)
BitLength(n) == IF n = 0 THEN 0 ELSE 1 + BitLength(n \div 2)

\* parseInt(hex, 16): the integer rounded to the nearest double, ties to even
ToDouble(n) ==
    IF BitLength(n) <= MantBits THEN n
    ELSE LET unit == Pow2(BitLength(n) - MantBits)
             q == n \div unit
             r == n % unit
             up == 2 * r > unit \/ (2 * r = unit /\ q % 2 = 1)
         IN  (IF up THEN q + 1 ELSE q) * unit

\* the values crypto.randomBytes can return, as integers
SecureRandoms == 0..(Pow2(RandBits) - 1)

\* createHmac("sha3-256", key).update(msg).digest("hex"): a perfect MAC,
\* the digest stands for the pair it was computed from
Hmac(key, msg) == [key |-> key, msg |-> msg]

\* FairRandom.generateValue(range, key), secureRandom being the bytes drawn
GenerateValueMacOfKeyAlone(range, key, secureRandom) ==
    [number |-> ToDouble(secureRandom) % range, hmac |-> Hmac(key, <<>>)]
GenerateValue(range, key, secureRandom) ==
    LET number == ToDouble(secureRandom) % range
    IN  [number |-> number, hmac |-> Hmac(key, IntToString(number))]

\* the results of generateValue(range, key) over all the bytes it can draw
GenerateValues(range, key) ==
    {GenerateValue(range, key, secureRandom) : secureRandom \in SecureRandoms}

\* FairRandom.verifyHMAC(number, key, hmac)
VerifyHMAC(number, key, hmac) == Hmac(key, IntToString(number)) = hmac

\* FairRandom.generateKey(): 32 fresh random bytes; the n-th key drawn is
\* the nonce n, two draws never collide
GenerateKey(n) == n + 1

----------------------------------------------------------------------------
(* The inputs of a run *)

\* "v1,v2,...": an argument of the command line
RECURSIVE Csv(_)
Csv(values) ==
    IF Len(values) = 1 THEN IntToString(values[1])
    ELSE IntToString(Head(values)) \o <<",">> \o Csv(Tail(values))

\* the command lines of the model: the configuration of the task's example,
\* and malformed ones
ArgLists ==
    { <<Csv(<<2, 2, 4, 4, 9, 9>>), Csv(<<6, 8, 1, 1, 8, 6>>),
        Csv(<<7, 5, 3, 7, 5, 3>>)>>,
      <<>>,
      <<Csv(<<2, 2, 4, 4, 9, 9>>), Csv(<<6, 8, 1, 1, 8, 6>>)>>,
      <<Csv(<<2, 2, 4, 4, 9, 9>>), Csv(<<6, 8, 1, 1, 8>>),
        Csv(<<7, 5, 3, 7, 5, 3>>)>>,
      <<Csv(<<2, 2, 4, 4, 9, 9>>), <<"a">> \o Csv(<<0, 8, 1, 1, 8, 6>>),
        Csv(<<7, 5, 3, 7, 5, 3>>)>>,
      <<Csv(<<2, 2, 4, 4, 9, 9>>), Csv(<<6, 8, 1, 1, 8, 6>>),
        <<"1", ".", "5", ",">> \o Csv(<<5, 3, 7, 5, 3>>)>>,
      <<Csv(<<2, 2, 4, 4, 9, 9>>), Csv(<<6, 8, 1, 1, 8, 6>>),
        <<"7", ",", ",">> \o Csv(<<3, 7, 5, 3>>)>> }

\* the lines the human can type at a prompt
Inputs ==
    {IntToString(n) : n \in 0..MaxInput}
        \cup { <<"X">>, <<" ", "X", " ">>, <<"?">>, <<"-", "1">>, <<"2", "a">> }

----------------------------------------------------------------------------
(* The console *)

Entry(kind, round) ==
    [kind |-> kind, round |-> round, text |-> <<>>, num |-> NaN,
     key |-> NoKey, mac |-> NoMac, die |-> NoDie, face |-> Undefined]

\* console.log(`HMAC=${hmac}`)
HmacLine(round, hmac) == [Entry("hmac", round) EXCEPT !.mac = hmac]
\* rl.question(message, ...)
PromptLine(round) == Entry("prompt", round)
\* the answer callback of promptUser: resolve(answer.trim())
AnswerLine(round, answer) == [Entry("answer", round) EXCEPT !.text = answer]
\* console.log(`My selection: ${number} (KEY=${key}).`)
RevealLineShowsMac(round, number, key) ==
    HmacLine(round, Hmac(key, IntToString(number)))
RevealLine(round, number, key) ==
    [Entry("reveal", round) EXCEPT !.num = Num(number), !.key = key]
DieLine(kind, index) == [Entry(kind, 0) EXCEPT !.die = index]

\* a record of one call of generateValue: the commitment it creates
Commitment(round, key, value) == [round |-> round, key |-> key, value |-> value]

\* this.dice[Math.floor(Math.random() * this.dice.length)]
RandomDieIndexes(d) == 0..(Len(d) - 1)

\* this.dice[parseInt(choice)] is a die
IsDieIndex(d, index) == ~index.isNaN /\ index.val \in 0..(Len(d) - 1)

\* userGuess === "X", choice === "X" (lines 115, 135, 155)
IsExitLowerCase(answer) == answer = <<"x">>
IsExit(answer) == answer = <<"X">>

\* computerChoice.number === userNumber (play, line 120)
UserWinsTossCombined(number, guess) ==
    ~guess.isNaN /\ (number + guess.val) % 2 = guess.val

UserWinsToss(number, guess) == StrictEq(Num(number), guess)

----------------------------------------------------------------------------
(* The program *)

Init ==
    /\ args \in ArgLists
    /\ dice = <<>>
    /\ pc = "main"
    /\ log = <<>>
    /\ keysGenerated = 0
    /\ commitments = <<>>
    /\ playKey = NoKey
    /\ computerChoice = NoValue
    /\ playUserNumber = NaN
    /\ firstMover = "none"
    /\ computerDie = NoDie
    /\ userDie = NoDie
    /\ roundsKey = NoKey
    /\ userRoll = NoValue
    /\ userNumber = NaN
    /\ userThrow = Undefined
    /\ compDie = NoDie
    /\ compRoll = NoValue
    /\ exitedAt = "none"

\* main: DiceParser.parse throws, the message is printed, nothing else runs
MainConfigError ==
    /\ pc = "main"
    /\ ~DiceParserParse(args).ok
    /\ log' = Append(log, [Entry("error", 0) EXCEPT
                               !.text = <<DiceParserParse(args).error>>])
    /\ pc' = "configError"
    /\ UNCHANGED <<args, dice, keysGenerated, commitments, playKey,
                   computerChoice, playUserNumber, firstMover, computerDie,
                   userDie, roundsKey, userRoll, userNumber, userThrow,
                   compDie, compRoll, exitedAt>>

\* main: the dice parse; game.play() runs up to its first await (line 114)
MainPlay ==
    /\ pc = "main"
    /\ DiceParserParse(args).ok
    /\ \E value \in GenerateValues(2, GenerateKey(keysGenerated)) :
         LET key == GenerateKey(keysGenerated)
         IN  /\ keysGenerated' = key
             /\ playKey' = key
             /\ computerChoice' = value
             /\ commitments' = Append(commitments, Commitment(1, key, value))
             /\ log' = log \o << Entry("firstMoveBanner", 1),
                                 HmacLine(1, value.hmac),
                                 PromptLine(1) >>
    /\ dice' = DiceParserParse(args).dice
    /\ pc' = "guess"
    /\ UNCHANGED <<args, playUserNumber, firstMover, computerDie, userDie,
                   roundsKey, userRoll, userNumber, userThrow, compDie,
                   compRoll, exitedAt>>

\* the start of userTurn, up to its await (lines 130-134)
UserTurnLinesPromptsTwice ==
    << Entry("chooseDice", 0), PromptLine(0), PromptLine(0) >>
UserTurnLines == << Entry("chooseDice", 0), PromptLine(0) >>

\* play resumes with "X": return (line 115)
GuessExit ==
    /\ pc = "guess"
    /\ \E input \in Inputs :
         /\ IsExit(Trim(input))
         /\ log' = Append(log, AnswerLine(1, Trim(input)))
    /\ pc' = "done"
    /\ exitedAt' = "guess"
    /\ UNCHANGED <<args, dice, keysGenerated, commitments, playKey,
                   computerChoice, playUserNumber, firstMover, computerDie,
                   userDie, roundsKey, userRoll, userNumber, userThrow,
                   compDie, compRoll>>

\* play resumes, the toss is the human's: lines 117-122, then userTurn up to
\* its await
GuessUserFirst ==
    /\ pc = "guess"
    /\ \E input \in Inputs :
         LET userGuess == Trim(input)
             number == ParseInt(userGuess)
         IN  /\ ~IsExit(userGuess)
             /\ UserWinsToss(computerChoice.number, number)
             /\ playUserNumber' = number
             /\ log' = log \o << AnswerLine(1, userGuess),
                                 RevealLine(1, computerChoice.number, playKey),
                                 Entry("userWinsToss", 1) >>
                           \o UserTurnLines
    /\ firstMover' = "user"
    /\ pc' = "select"
    /\ UNCHANGED <<args, dice, keysGenerated, commitments, playKey,
                   computerChoice, computerDie, userDie, roundsKey, userRoll,
                   userNumber, userThrow, compDie, compRoll, exitedAt>>

\* play resumes, the toss is the computer's: lines 117-125, computerTurn
\* (lines 143-145), then userTurn up to its await
GuessComputerFirst ==
    /\ pc = "guess"
    /\ \E input \in Inputs, index \in RandomDieIndexes(dice) :
         LET userGuess == Trim(input)
             number == ParseInt(userGuess)
         IN  /\ ~IsExit(userGuess)
             /\ ~UserWinsToss(computerChoice.number, number)
             /\ playUserNumber' = number
             /\ computerDie' = index
             /\ log' = log \o << AnswerLine(1, userGuess),
                                 RevealLine(1, computerChoice.number, playKey),
                                 Entry("computerWinsToss", 1),
                                 DieLine("computerChose", index) >>
                           \o UserTurnLines
    /\ firstMover' = "computer"
    /\ pc' = "select"
    /\ UNCHANGED <<args, dice, keysGenerated, commitments, playKey,
                   computerChoice, userDie, roundsKey, userRoll, userNumber,
                   userThrow, compDie, compRoll, exitedAt>>

\* userTurn resumes with "X": return (line 135)
SelectExit ==
    /\ pc = "select"
    /\ \E input \in Inputs :
         /\ IsExit(Trim(input))
         /\ log' = Append(log, AnswerLine(0, Trim(input)))
    /\ pc' = "done"
    /\ exitedAt' = "select"
    /\ UNCHANGED <<args, dice, keysGenerated, commitments, playKey,
                   computerChoice, playUserNumber, firstMover, computerDie,
                   userDie, roundsKey, userRoll, userNumber, userThrow,
                   compDie, compRoll>>

\* userTurn resumes with a choice that is no index of this.dice: userDie is
\* undefined, userDie.values throws (line 138), the rejection is unhandled
SelectCrashPromptsAgain ==
    /\ pc = "select"
    /\ \E input \in Inputs :
         LET choice == Trim(input)
         IN  /\ ~IsExit(choice)
             /\ ~IsDieIndex(dice, ParseInt(choice))
             /\ log' = log \o << AnswerLine(0, choice), PromptLine(0) >>
    /\ UNCHANGED <<args, dice, pc, keysGenerated, commitments, playKey,
                   computerChoice, playUserNumber, firstMover, computerDie,
                   userDie, roundsKey, userRoll, userNumber, userThrow,
                   compDie, compRoll, exitedAt>>
SelectCrash ==
    /\ pc = "select"
    /\ \E input \in Inputs :
         LET choice == Trim(input)
         IN  /\ ~IsExit(choice)
             /\ ~IsDieIndex(dice, ParseInt(choice))
             /\ log' = log \o << AnswerLine(0, choice),
                                 Entry("uncaughtTypeError", 0) >>
    /\ pc' = "crashed"
    /\ UNCHANGED <<args, dice, keysGenerated, commitments, playKey,
                   computerChoice, playUserNumber, firstMover, computerDie,
                   userDie, roundsKey, userRoll, userNumber, userThrow,
                   compDie, compRoll, exitedAt>>

\* userTurn resumes with the index of a die: lines 137-139, then playRounds
\* up to its await (lines 150-154)
SelectDie ==
    /\ pc = "select"
    /\ \E value \in GenerateValues(6, GenerateKey(keysGenerated)),
          input \in Inputs :
         LET choice == Trim(input)
             index == ParseInt(choice)
             key == GenerateKey(keysGenerated)
         IN  /\ ~IsExit(choice)
             /\ IsDieIndex(dice, index)
             /\ userDie' = index.val
             /\ keysGenerated' = key
             /\ roundsKey' = key
             /\ userRoll' = value
             /\ commitments' = Append(commitments, Commitment(2, key, value))
             /\ log' = log \o << AnswerLine(0, choice),
                                 DieLine("userChose", index.val),
                                 Entry("userTurnToRoll", 2),
                                 HmacLine(2, value.hmac),
                                 PromptLine(2) >>
    /\ pc' = "roll"
    /\ UNCHANGED <<args, dice, playKey, computerChoice, playUserNumber,
                   firstMover, computerDie, userNumber, userThrow, compDie,
                   compRoll, exitedAt>>

\* playRounds resumes with "X": return (line 155)
RollExit ==
    /\ pc = "roll"
    /\ \E input \in Inputs :
         /\ IsExit(Trim(input))
         /\ log' = Append(log, AnswerLine(2, Trim(input)))
    /\ pc' = "done"
    /\ exitedAt' = "roll"
    /\ UNCHANGED <<args, dice, keysGenerated, commitments, playKey,
                   computerChoice, playUserNumber, firstMover, computerDie,
                   userDie, roundsKey, userRoll, userNumber, userThrow,
                   compDie, compRoll>>

\* playRounds resumes with anything else: lines 157-165, the end of the game
Roll ==
    /\ pc = "roll"
    /\ \E value \in GenerateValues(6, roundsKey), input \in Inputs,
          index \in RandomDieIndexes(dice) :
         LET userGuess == Trim(input)
             number == ParseInt(userGuess)
             face == DiceRoll(dice[userDie + 1], number)
         IN  /\ ~IsExit(userGuess)
             /\ userNumber' = number
             /\ userThrow' = face
             /\ compDie' = index
             /\ compRoll' = value
             /\ commitments' = Append(commitments,
                                      Commitment(3, roundsKey, value))
             /\ log' = log \o << AnswerLine(2, userGuess),
                                 [Entry("userRollShown", 2) EXCEPT
                                      !.face = face],
                                 Entry("computerTurnToRoll", 3),
                                 Entry("comparing", 3) >>
    /\ pc' = "done"
    /\ UNCHANGED <<args, dice, keysGenerated, playKey, computerChoice,
                   playUserNumber, firstMover, computerDie, userDie,
                   roundsKey, userRoll, exitedAt>>

Next ==
    \/ MainConfigError
    \/ MainPlay
    \/ GuessExit
    \/ GuessUserFirst
    \/ GuessComputerFirst
    \/ SelectExit
    \/ SelectCrash
    \/ SelectDie
    \/ RollExit
    \/ Roll

Spec == Init /\ [][Next]_vars

TypeOK ==
    /\ pc \in {"main", "configError", "guess", "select", "roll", "done",
               "crashed"}
    /\ keysGenerated \in 0..2
    /\ Len(commitments) \in 0..3
    /\ userDie \in {NoDie} \cup RandomDieIndexes(dice)
    /\ computerDie \in {NoDie} \cup RandomDieIndexes(dice)

----------------------------------------------------------------------------
(* Vocabulary of the properties *)

\* rounds of the commit-reveal protocol: 1 is the first-move round, 2 the
\* user's roll, 3 the computer's roll; the die selection is step 0
Rounds == 1..3

\* the protocol artifacts of round r, in the order they were emitted
RoundArtifacts(r) ==
    SelectSeq(log, LAMBDA e : e.round = r
                              /\ e.kind \in {"hmac", "answer", "reveal"})
ArtifactKinds(r) ==
    [i \in 1..Len(RoundArtifacts(r)) |-> RoundArtifacts(r)[i].kind]

\* the game ran to its end without a cancel and without a crash
PlayedToEnd == pc = "done" /\ exitedAt = "none"

\* the key k appears on the console
KeyDisclosed(k) == \E i \in 1..Len(log) : log[i].key = k

\* the keys of the commitments of round r
RoundKeys(r) ==
    {commitments[i].key : i \in {j \in 1..Len(commitments) :
                                     commitments[j].round = r}}

\* the step takes an answer from the human: it is the first line the step
\* adds to the console
AnswerTaken ==
    Len(log') > Len(log) /\ log'[Len(log) + 1].kind = "answer"
TakenAnswer == log'[Len(log) + 1].text

\* the numbers the menu of a prompt offers
MenuNumbers(step) ==
    CASE step = "guess" -> 0..1
      [] step = "select" -> RandomDieIndexes(dice)
      [] step = "roll" -> 0..5
      [] OTHER -> {}
IsValidChoice(step, answer) ==
    answer \in {IntToString(n) : n \in MenuNumbers(step)}
IsHelp(answer) == answer = <<"?">>
IsInvalidChoice(step, answer) ==
    ~IsValidChoice(step, answer) /\ ~IsExit(answer) /\ ~IsHelp(answer)

\* the answers the human has given so far, with the round they were given in
Answers == SelectSeq(log, LAMBDA e : e.kind = "answer")

\* the human answered the three prompts, each time with a number of the menu
AllAnswersValid ==
    /\ Len(Answers) = 3
    /\ IsValidChoice("guess", Answers[1].text)
    /\ IsValidChoice("select", Answers[2].text)
    /\ IsValidChoice("roll", Answers[3].text)

----------------------------------------------------------------------------
(* C1: in every round that is not cancelled the protocol artifacts are     *)
(* exactly: the mac, then the human's answer, then the reveal of value and *)
(* key; while a round is running its artifacts are a prefix of that.  The  *)
(* rounds of a game played to its end with valid answers are not cancelled.*)
C1_Expected == <<"hmac", "answer", "reveal">>
C1_ProtocolOrder ==
    \A r \in Rounds :
        /\ Len(ArtifactKinds(r)) <= 3
        /\ ArtifactKinds(r) = SubSeq(C1_Expected, 1, Len(ArtifactKinds(r)))
        /\ (PlayedToEnd /\ AllAnswersValid) =>
               ArtifactKinds(r) = C1_Expected

(* C2: a key (and the computer's value) is on the console only after the   *)
(* human's answer of that round, the key shown is the key of that round's  *)
(* commitment, and a mac is never shown once the round's mac or the        *)
(* human's answer is on the console.                                       *)
C2_KeyAfterChoice ==
    \A i \in 1..Len(log) :
        /\ (log[i].kind = "reveal" \/ log[i].key # NoKey) =>
              /\ \E j \in 1..(i - 1) : /\ log[j].kind = "answer"
                                       /\ log[j].round = log[i].round
              /\ log[i].key \in RoundKeys(log[i].round)
        /\ log[i].kind = "hmac" =>
              ~\E j \in 1..(i - 1) : /\ log[j].round = log[i].round
                                     /\ log[j].kind \in {"hmac", "answer"}
C2_Witness ==
    \E i \in 1..Len(log) : log[i].kind = "reveal" /\ log[i].key = playKey

(* C3: no key is used for the mac of two different commitments.            *)
C3_FreshKeys ==
    \A i, j \in 1..Len(commitments) :
        i # j => commitments[i].key # commitments[j].key

(* C4: with the human's number in 0..5, the throw shown for the user is    *)
(* the face of the user's die at index (computerValue + humanValue) mod 6. *)
C4_ThrowAtCombined ==
    (PlayedToEnd /\ ~userNumber.isNaN /\ userNumber.val \in 0..5) =>
        userThrow = DiceRoll(dice[userDie + 1],
                             Num((userRoll.number + userNumber.val) % 6))

(* C5: once both sides hold a die, the dice are different: neither the die *)
(* the computer announced nor the die it rolls with is the user's die.     *)
C5_DistinctDice ==
    /\ (userDie # NoDie /\ computerDie # NoDie) => userDie # computerDie
    /\ (userDie # NoDie /\ compDie # NoDie) => userDie # compDie

(* C6: once "X" is answered the game is over with nothing after the        *)
(* answer on the console and no key of the round in progress disclosed,    *)
(* and the step that takes the "X" changes no die and creates no           *)
(* commitment.                                                             *)
C6_ExitEndsGame ==
    /\ [](\A i \in 1..Len(log) :
            (log[i].kind = "answer" /\ log[i].text = <<"X">>) =>
                /\ pc = "done"
                /\ i = Len(log)
                /\ \A k \in RoundKeys(log[i].round) : ~KeyDisclosed(k))
    /\ [][(AnswerTaken /\ TakenAnswer = <<"X">>) =>
            UNCHANGED <<dice, computerDie, userDie, compDie, commitments,
                        keysGenerated, userThrow, firstMover>>]_vars
C6_Witness ==
    /\ exitedAt = "roll"
    /\ userDie # NoDie
    /\ computerDie # NoDie
    /\ log[Len(log)].text = <<"X">>
    /\ ~KeyDisclosed(roundsKey)

(* C7: a step that takes an invalid answer stays at the same prompt and    *)
(* produces no reveal, no die assignment and no throw.                     *)
C7_InvalidReprompts ==
    [][(AnswerTaken /\ IsInvalidChoice(pc, TakenAnswer)) =>
          /\ pc' = pc
          /\ UNCHANGED <<firstMover, computerDie, userDie, userThrow>>
          /\ \A i \in (Len(log) + 1)..Len(log') : log'[i].kind # "reveal"]_vars

(* C8: a game with valid answers only and no cancel ends resolved: both    *)
(* throws are shown and a verdict (a winner, or a tie) is declared.        *)
C8_Resolved ==
    (pc = "done" /\ AllAnswersValid) =>
        /\ ~userThrow.undef
        /\ \E i \in 1..Len(log) : log[i].round = 3 /\ ~log[i].face.undef
        /\ \E i \in 1..Len(log) :
               log[i].kind \in {"userWins", "computerWins", "tie"}

(* C9, as claimed: with a guess in {0, 1} the human picks first exactly    *)
(* when the guess equals the combined result of the round.                 *)
C9_GuessIsBit == ~playUserNumber.isNaN /\ playUserNumber.val \in 0..1
C9_GuessEqualsCombined ==
    (firstMover # "none" /\ C9_GuessIsBit) =>
        (firstMover = "user" <=>
            (computerChoice.number + playUserNumber.val) % 2
                = playUserNumber.val)

(* C9, amended: with a guess in {0, 1} the human picks first exactly when  *)
(* the guess equals the computer's value, and the computer otherwise; the  *)
(* guess is on the console before the reveal.                              *)
C9_GuessEqualsComputerValue ==
    (firstMover # "none" /\ C9_GuessIsBit) =>
        /\ firstMover = "user" <=> computerChoice.number = playUserNumber.val
        /\ firstMover = "computer" <=>
               computerChoice.number # playUserNumber.val
        /\ (firstMover = "user") = (computerDie = NoDie)
        /\ ArtifactKinds(1) = <<"hmac", "answer", "reveal">>
C9_Witness ==
    /\ firstMover = "user"
    /\ playUserNumber = Num(1)
    /\ computerChoice.number = 1
    /\ pc = "select"

(* C10: a step that takes the help answer "?" displays the help table and  *)
(* stays at the same prompt, with commitments, dice and results unchanged. *)
C10_HelpReprompts ==
    [][(AnswerTaken /\ IsHelp(TakenAnswer)) =>
          /\ pc' = pc
          /\ \E i \in (Len(log) + 1)..Len(log') : log'[i].kind = "helpTable"
          /\ UNCHANGED <<commitments, firstMover, computerDie, userDie,
                         userThrow>>]_vars

(* C11: the worked example.  With the example dice, computer value 1 in    *)
(* the first-move round and the guess "0", the computer holding die        *)
(* 6,8,1,1,8,6 and the human taking die 2,2,4,4,9,9, computer value 3 (and *)
(* the human's 4) for the computer's throw and computer value 0 (and the   *)
(* human's 5) for the human's throw, the game ends with the computer's     *)
(* throw 8 and the human's throw 9 on the console and the human winning.   *)
C11_ExampleDice ==
    << <<2, 2, 4, 4, 9, 9>>, <<6, 8, 1, 1, 8, 6>>, <<7, 5, 3, 7, 5, 3>> >>
C11_Scenario ==
    /\ pc = "done"
    /\ exitedAt = "none"
    /\ dice = C11_ExampleDice
    /\ computerChoice.number = 1
    /\ Answers[1].text = <<"0">>
    /\ computerDie = 1
    /\ Answers[2].text = <<"0">>
    /\ userRoll.number = 0
    /\ Answers[3].text = <<"5">>
    /\ compDie = 1
    /\ compRoll.number = 3
C11_WorkedExample ==
    C11_Scenario =>
        /\ firstMover = "computer"
        /\ userDie = 0
        /\ userThrow = Defined(9)
        /\ \E i \in 1..Len(log) : /\ log[i].kind = "answer"
                                  /\ log[i].round = 3
                                  /\ log[i].text = <<"4">>
        /\ \E i \in 1..Len(log) : log[i].round = 3 /\ log[i].face = Defined(8)
        /\ \E i \in 1..Len(log) : log[i].kind = "userWins"

(* C12: the mac of every commitment verifies with its key and number, and  *)
(* does not verify when the number, the key or the mac is replaced by a    *)
(* different one; the mac, the number and the key shown on the console for *)
(* a round verify together.                                                *)
C12_MacVerifies ==
    /\ \A i \in 1..Len(commitments) :
         LET c == commitments[i]
             range == IF c.round = 1 THEN 2 ELSE 6
         IN  /\ VerifyHMAC(c.value.number, c.key, c.value.hmac)
             /\ \A n \in 0..(range - 1) :
                    n # c.value.number => ~VerifyHMAC(n, c.key, c.value.hmac)
             /\ \A k \in 0..(keysGenerated + 1) :
                    k # c.key => ~VerifyHMAC(c.value.number, k, c.value.hmac)
             /\ \A j \in 1..Len(commitments) :
                    commitments[j].value.hmac # c.value.hmac =>
                        ~VerifyHMAC(c.value.number, c.key,
                                    commitments[j].value.hmac)
    /\ \A i \in {n \in 1..Len(log) : log[n].kind = "hmac"} :
         \A j \in {n \in 1..Len(log) : log[n].kind = "reveal"} :
             log[i].round = log[j].round =>
                 VerifyHMAC(log[j].num.val, log[j].key, log[i].mac)
C12_Witness ==
    /\ pc = "roll"
    /\ computerChoice.number = 1
    /\ userRoll.number = 5
    /\ \E i, j \in 1..Len(log) : /\ log[i].kind = "hmac"
                                 /\ log[j].kind = "reveal"
                                 /\ log[i].round = log[j].round

(* C13: for the range of every commitment, the computer's value is in      *)
(* [0, range) and every value of [0, range) is produced by the same number *)
(* of outputs of the generator.                                            *)
C13_Outputs(range, v) ==
    {s \in SecureRandoms : GenerateValue(range, NoKey, s).number = v}
C13_UniformValue ==
    \A i \in 1..Len(commitments) :
        LET range == IF commitments[i].round = 1 THEN 2 ELSE 6
        IN  /\ commitments[i].value.number \in 0..(range - 1)
            /\ \A v, w \in 0..(range - 1) :
                   Cardinality(C13_Outputs(range, v))
                       = Cardinality(C13_Outputs(range, w))

(* C14: for an argument list with fewer than 3 dice, or with a die whose   *)
(* face count is not 6 or that has a face that is no integer, the program  *)
(* prints an error and the coordinator never starts: no commitment, no     *)
(* mac, no prompt.                                                         *)
C14_IsIntegerText(field) ==
    LET u == IF field # <<>> /\ Head(field) \in {"-", "+"}
             THEN Tail(field) ELSE field
    IN  u # <<>> /\ AllDigits(u)
C14_Malformed(a) ==
    \/ Len(a) < 3
    \/ \E i \in 1..Len(a) :
          \/ Len(Split(a[i])) # 6
          \/ \E j \in 1..Len(Split(a[i])) : ~C14_IsIntegerText(Split(a[i])[j])
C14_MalformedRejected ==
    (pc # "main" /\ C14_Malformed(args)) =>
        /\ pc = "configError"
        /\ Len(log) = 1
        /\ log[1].kind = "error"
        /\ commitments = <<>>
        /\ keysGenerated = 0

(* C15: when a commitment of a later round exists, the key of every        *)
(* earlier commitment of the session has been revealed on the console.     *)
C15_SequentialRounds ==
    \A j \in 1..Len(commitments) :
        \A i \in 1..(j - 1) : KeyDisclosed(commitments[i].key)

\* the prompts issued so far
Prompts == SelectSeq(log, LAMBDA e : e.kind = "prompt")

(* C16: at most one prompt is outstanding at any time, one is outstanding  *)
(* exactly while the game waits for the human, no prompt is issued while   *)
(* another is outstanding, and the k-th answer is consumed by the k-th     *)
(* prompt, the one of its own step.                                        *)
C16_OnePrompt ==
    /\ Len(Prompts) - Len(Answers) \in {0, 1}
    /\ (Len(Prompts) - Len(Answers) = 1) <=> (pc \in {"guess", "select", "roll"})
    /\ \A k \in 1..Len(Answers) : Answers[k].round = Prompts[k].round
    /\ \A i, j \in {n \in 1..Len(log) : log[n].kind = "prompt"} :
         i < j => \E m \in (i + 1)..(j - 1) : log[m].kind = "answer"
C16_Witness ==
    /\ pc = "roll"
    /\ firstMover = "computer"
    /\ Len(Prompts) = 3
    /\ Len(Answers) = 2

(* C17: the die the computer rolls with is the die it announced.           *)
C17_ComputerKeepsDie ==
    (computerDie # NoDie /\ compDie # NoDie) => compDie = computerDie

(* C18: a run consumes at most three answers and issues at most three      *)
(* prompts, after the third answer the game is over, and every step moves  *)
(* to a later step of the game: no step stays at a prompt or returns to an *)
(* earlier one, and nothing happens after the end.                         *)
C18_Rank(p) ==
    CASE p = "main" -> 0
      [] p = "guess" -> 1
      [] p = "select" -> 2
      [] p = "roll" -> 3
      [] OTHER -> 4
====
